---- MODULE Spec2Model ----
(***************************************************************************)
(* Model of the PEFS drawing validator, src/core/verifier.py:              *)
(* build_context, find_best_context_region and verify_drawings_memory.     *)
(* Texts are sequences of one-character strings, so that upper(), strip(), *)
(* startswith(), split() and the fuzzy score are computed, not assumed.    *)
(***************************************************************************)
EXTENDS Integers, Sequences, FiniteSets, TLC

\* ------------------------------------------------------------------------
\* Bounds of the model
\* ------------------------------------------------------------------------
MaxD1 == 2
MaxD2 == 2

\* ------------------------------------------------------------------------
\* Python string operations
\* ------------------------------------------------------------------------
SP == " "

\* str.upper() on one character
UpperChar(c) ==
    CASE c = "a" -> "A" [] c = "d" -> "D" [] c = "r" -> "R" [] c = "h" -> "H"
      [] c = "l" -> "L" [] c = "v" -> "V" [] OTHER -> c

\* str.upper()
Upper(s) == [k \in 1..Len(s) |-> UpperChar(s[k])]

RECURSIVE LStrip(_)
LStrip(s) == IF s # <<>> /\ Head(s) = SP THEN LStrip(Tail(s)) ELSE s

RECURSIVE RStrip(_)
RStrip(s) ==
    IF s # <<>> /\ s[Len(s)] = SP THEN RStrip(SubSeq(s, 1, Len(s) - 1)) ELSE s

\* str.strip()
Strip(s) == RStrip(LStrip(s))

\* str.startswith(p)
StartsWith(s, p) == Len(p) <= Len(s) /\ SubSeq(s, 1, Len(p)) = p

\* " ".join(texts)
RECURSIVE Join(_)
Join(texts) ==
    IF texts = <<>> THEN <<>>
    ELSE IF Len(texts) = 1 THEN texts[1]
    ELSE texts[1] \o <<SP>> \o Join(Tail(texts))

\* str.split(): the maximal runs of non-blank characters, in order
RECURSIVE SplitFrom(_, _, _)
SplitFrom(s, k, cur) ==
    IF k > Len(s) THEN (IF cur = <<>> THEN <<>> ELSE <<cur>>)
    ELSE IF s[k] = SP
         THEN (IF cur = <<>> THEN <<>> ELSE <<cur>>) \o SplitFrom(s, k + 1, <<>>)
         ELSE SplitFrom(s, k + 1, Append(cur, s[k]))

Split(s) == SplitFrom(s, 1, <<>>)

Max2(a, b) == IF a >= b THEN a ELSE b

\* F applied to the value of x: x is evaluated once, before F
Eager(x, F(_)) == CHOOSE r \in {F(v) : v \in {x}} : TRUE

\* ------------------------------------------------------------------------
\* rapidfuzz.fuzz.partial_ratio, as called at verifier.py:68
\* A score is the fraction <<n, d>> standing for 100 * n / d.
\* ------------------------------------------------------------------------
\* one row of the longest-common-subsequence table
RECURSIVE LcsRow(_, _, _, _, _)
LcsRow(prev, c, s2, j, acc) ==
    IF j > Len(s2) THEN acc
    ELSE Eager(Append(acc, IF c = s2[j] THEN prev[j] + 1
                           ELSE Max2(prev[j + 1], acc[j])),
               LAMBDA a : LcsRow(prev, c, s2, j + 1, a))

\* the last row of the table: entry j + 1 is the length of the longest common
\* subsequence of s1 and the first j characters of s2
RECURSIVE LcsFrom(_, _, _, _)
LcsFrom(s1, s2, k, prev) ==
    IF k > Len(s1) THEN prev
    ELSE Eager(LcsRow(prev, s1[k], s2, 1, <<0>>),
               LAMBDA row : LcsFrom(s1, s2, k + 1, row))

LcsPrefixes(s1, s2) ==
    Eager([j \in 1..(Len(s2) + 1) |-> 0], LAMBDA row : LcsFrom(s1, s2, 1, row))

Lcs(s1, s2) == LcsPrefixes(s1, s2)[Len(s2) + 1]

RECURSIVE Reverse(_)
Reverse(s) == IF s = <<>> THEN <<>> ELSE Append(Reverse(Tail(s)), Head(s))

\* a fraction in lowest terms, so that equal scores are equal values
RECURSIVE Gcd(_, _)
Gcd(a, b) == IF b = 0 THEN a ELSE Gcd(b, a % b)

Reduce(f) ==
    Eager(f, LAMBDA v :
        IF v[1] = 0 THEN <<0, 1>>
        ELSE Eager(Gcd(v[1], v[2]), LAMBDA g : <<v[1] \div g, v[2] \div g>>))

\* Indel.normalized_similarity: 1 - (len1 + len2 - 2*lcs) / (len1 + len2)
IndelSim(s1, s2) ==
    IF Len(s1) + Len(s2) = 0 THEN <<1, 1>>
    ELSE Reduce(<<2 * Lcs(s1, s2), Len(s1) + Len(s2)>>)

ScoreGT(a, b) == a[1] * b[2] > b[1] * a[2]

ScoreMax(a, b) == IF ScoreGT(b, a) THEN b ELSE a

\* score >= t, for a whole number t
ScoreGE(a, t) == 100 * a[1] >= t * a[2]

\* round(score, 1), in tenths; a tie goes to the even neighbour
Round1(a) ==
    LET q == (1000 * a[1]) \div a[2]
        r == (1000 * a[1]) % a[2]
    IN  IF 2 * r > a[2] \/ (2 * r = a[2] /\ q % 2 = 1) THEN q + 1 ELSE q

CharSet(s) == {s[k] : k \in 1..Len(s)}

\* the scores of s1 against the windows of the longer string s2 that
\* _partial_ratio_impl compares: prefixes shorter than s1, every window as long
\* as s1, and the suffixes no longer than s1; a window is skipped when the
\* character at its moving edge does not occur in s1.  The prefixes share one
\* table, and so do the suffixes (read backwards).
WindowScores(s1, s2) ==
    LET l1 == Len(s1)
        l2 == Len(s2)
        cs == CharSet(s1)
    IN  Eager(LcsPrefixes(s1, SubSeq(s2, 1, l1 - 1)), LAMBDA pre :
        Eager(LcsPrefixes(Reverse(s1), Reverse(SubSeq(s2, l2 - l1 + 1, l2))),
              LAMBDA suf :
            {Reduce(<<2 * pre[i + 1], l1 + i>>) :
                 i \in {k \in 1..(l1 - 1) : s2[k] \in cs}}
            \cup {IndelSim(s1, SubSeq(s2, i + 1, i + l1)) :
                     i \in {k \in 0..(l2 - l1 - 1) : s2[k + l1] \in cs}}
            \cup {Reduce(<<2 * suf[l2 - i + 1], l1 + l2 - i>>) :
                     i \in {k \in (l2 - l1)..(l2 - 1) : s2[k + 1] \in cs}}))

\* _partial_ratio_impl(s1, s2), len(s1) <= len(s2): the greatest similarity of
\* s1 with a window of s2, 0 when no window is compared
PartialRatioImpl(s1, s2) ==
    Eager(WindowScores(s1, s2) \cup {<<0, 1>>},
          LAMBDA scores : CHOOSE a \in scores : \A b \in scores : ~ScoreGT(b, a))

PartialRatio(s1, s2) ==
    IF s1 = <<>> /\ s2 = <<>> THEN <<1, 1>>
    ELSE IF s1 = <<>> \/ s2 = <<>> THEN <<0, 1>>
    ELSE LET shorter == IF Len(s1) <= Len(s2) THEN s1 ELSE s2
             longer == IF Len(s1) <= Len(s2) THEN s2 ELSE s1
         IN  Eager(PartialRatioImpl(shorter, longer),
                   LAMBDA res :
                       IF res[1] # res[2] /\ Len(s1) = Len(s2)
                       THEN Eager(PartialRatioImpl(longer, shorter),
                                  LAMBDA res2 : ScoreMax(res, res2))
                       ELSE res)


Abs(x) == IF x < 0 THEN 0 - x ELSE x

\* the subsequence of s whose elements satisfy Test, in order
RECURSIVE SelectIdx(_, _, _)
SelectIdx(n, k, keep) ==
    IF k > n THEN <<>>
    ELSE (IF k \in keep THEN <<k>> ELSE <<>>) \o SelectIdx(n, k + 1, keep)

SeqsUpTo(S, n) == UNION {[1..k -> S] : k \in 0..n}

\* ------------------------------------------------------------------------
\* Program constants
\* ------------------------------------------------------------------------
\* build_context(df, radius=250)
DefaultRadius == 250
\* find_best_context_region(src_context, df2_ctx, threshold=75)
Threshold == 75
\* settings.get("scan_prefix", "5-AD")
prefix_5ad == <<"5", "-", "A", "D">>
\* the target prefix tested at verifier.py:145
RHL_PREFIX == <<"R", "H", "L", "-">>
DASH == <<"-">>

\* ------------------------------------------------------------------------
\* Inputs: the rows extract_text_positions_opencv returns (page from 1, the
\* box of the word, its stripped non-empty text) and the rows of mapping.csv
\* ------------------------------------------------------------------------
Frag(page, x0, text) ==
    [page |-> page, x0 |-> x0, y0 |-> 0, x1 |-> x0 + 40, y1 |-> 10, text |-> text]

T_5AD1 == <<"5", "-", "A", "D", "1">>
T_5ad1 == <<"5", "-", "a", "d", "1">>
T_5AD2 == <<"5", "-", "A", "D", "2">>
T_V == <<"V">>
T_RHL1 == <<"R", "H", "L", "-", "1">>
T_rhl1 == <<"r", "h", "l", "-", "1">>
T_RHL2 == <<"R", "H", "L", "-", "2">>
T_rhl2 == <<"r", "h", "l", "-", "2">>

\* words of drawing 1: a tag, the same tag in lower case 100 points away, and a
\* tag on page 2
Frags1 == {Frag(1, 0, T_5AD1), Frag(1, 100, T_5ad1), Frag(2, 0, T_5AD2)}

\* words of drawing 2: the legacy number on page 1 and on page 2, the target
\* in lower case 300 points away from it, and another target next to it
Frags2 ==
    {Frag(1, 0, T_5AD1), Frag(2, 0, T_5AD1), Frag(1, 300, T_rhl1), Frag(1, 0, T_RHL2)}

MapRow(a, b) == [Drawing1_No |-> a, Drawing2_No |-> b]

\* contents of mapping.csv: no row; one row in lower case with blanks around
\* it; a repeated key and a row with a blank target
MapFiles ==
    { <<>>,
      <<MapRow(<<SP>> \o T_5ad1, T_rhl2 \o <<SP>>)>>,
      <<MapRow(T_5AD1, T_RHL2), MapRow(T_5AD1, T_RHL1), MapRow(T_5AD2, <<SP>>)>> }

\* page counts of the PDF of drawing 2
PageCounts == {1, 2}

\* ------------------------------------------------------------------------
\* build_context
\* ------------------------------------------------------------------------
\* neighbors with the bounds taken strictly
neighbors_strict(df, k, radius) ==
    SelectIdx(Len(df), 1,
              {j \in 1..Len(df) :
                  /\ df[j].page = df[k].page
                  /\ Abs(df[j].x0 - df[k].x0) < radius
                  /\ Abs(df[j].y0 - df[k].y0) < radius})

\* the rows of df on the page of df[k] whose origin is within radius of it on
\* each axis, in the order of df
neighbors(df, k, radius) ==
    SelectIdx(Len(df), 1,
              {j \in 1..Len(df) :
                  /\ df[j].page = df[k].page
                  /\ Abs(df[j].x0 - df[k].x0) <= radius
                  /\ Abs(df[j].y0 - df[k].y0) <= radius})

\* context_row with the text left as extracted
context_row_raw(df, k, radius) ==
    LET nb == neighbors(df, k, radius)
        context_words == Join([j \in 1..Len(nb) |-> df[nb[j]].text])
    IN  [page |-> df[k].page, text |-> df[k].text,
         context |-> Upper(context_words),
         x0 |-> df[k].x0, y0 |-> df[k].y0, x1 |-> df[k].x1, y1 |-> df[k].y1]

\* one row of the result
context_row(df, k, radius) ==
    LET nb == neighbors(df, k, radius)
        context_words == Join([j \in 1..Len(nb) |-> df[nb[j]].text])
    IN  [page |-> df[k].page, text |-> Upper(df[k].text),
         context |-> Upper(context_words),
         x0 |-> df[k].x0, y0 |-> df[k].y0, x1 |-> df[k].x1, y1 |-> df[k].y1]

build_context(df, radius) == [k \in 1..Len(df) |-> context_row(df, k, radius)]

\* ------------------------------------------------------------------------
\* find_best_context_region
\* ------------------------------------------------------------------------
\* a strictly greater score replaces the best candidate
Better(score, best_score) == ScoreGT(score, best_score)

RECURSIVE FindBestFrom(_, _, _, _, _)
FindBestFrom(src_context, df2_ctx, k, best_row, best_score) ==
    IF k > Len(df2_ctx) THEN <<best_row, best_score>>
    ELSE Eager(PartialRatio(src_context, df2_ctx[k].context),
               LAMBDA score :
                   IF Better(score, best_score)
                   THEN FindBestFrom(src_context, df2_ctx, k + 1, k, score)
                   ELSE FindBestFrom(src_context, df2_ctx, k + 1, best_row, best_score))

\* best_row is an index of df2_ctx, 0 for None
find_best_context_region(src_context, df2_ctx) ==
    Eager(FindBestFrom(src_context, df2_ctx, 1, 0, <<0, 1>>), LAMBDA r :
        IF r[1] # 0 /\ ScoreGE(r[2], Threshold)
        THEN [best_row |-> r[1], score |-> r[2]]
        ELSE [best_row |-> 0, score |-> r[2]])

\* ------------------------------------------------------------------------
\* verify_drawings_memory
\* ------------------------------------------------------------------------
\* str(cell).strip().upper()
NormKey(cell) == Upper(Strip(cell))

\* the dict comprehension: a later row with the same key overwrites
map_dict_of(rows) ==
    LET keys == {NormKey(rows[k].Drawing1_No) : k \in 1..Len(rows)}
        last(key) == CHOOSE k \in 1..Len(rows) :
                        /\ NormKey(rows[k].Drawing1_No) = key
                        /\ \A m \in 1..Len(rows) :
                              NormKey(rows[m].Drawing1_No) = key => m <= k
    IN  [key \in keys |-> NormKey(rows[last(key)].Drawing2_No)]

\* map_get answering a target for a tag that is no key
map_get_default(d, tag) == IF tag \in DOMAIN d THEN d[tag] ELSE T_RHL1

\* map_dict.get(tag): <<>> stands for None and for the empty string, which
\* the test `if expected_rhl:` does not tell apart
map_get(d, tag) == IF tag \in DOMAIN d THEN d[tag] ELSE <<>>

\* df1_ctx[df1_ctx["text"].str.startswith(prefix_5ad)]
targets_of(ctx) ==
    LET keep == SelectIdx(Len(ctx), 1,
                          {k \in 1..Len(ctx) : StartsWith(ctx[k].text, prefix_5ad)})
    IN  [k \in 1..Len(keep) |-> ctx[keep[k]]]

\* fitz.Rect(x0 - 1, y0 - 1, x1 + 1, y1 + 1)
RectOf(r) == <<r.x0 - 1, r.y0 - 1, r.x1 + 1, r.y1 + 1>>

\* df2_rhl_of comparing the text as extracted
df2_rhl_of_raw(df, page, expected_rhl) ==
    SelectIdx(Len(df), 1,
              {k \in 1..Len(df) : df[k].page = page /\ df[k].text = expected_rhl})

\* df2[(df2["page"] == page) & (df2["text"].str.upper() == expected_rhl)]
df2_rhl_of(df, page, expected_rhl) ==
    SelectIdx(Len(df), 1,
              {k \in 1..Len(df) : df[k].page = page /\ Upper(df[k].text) = expected_rhl})

\* the words of region_text that start with "RHL-"
rhl_words(region_text) ==
    LET w == Split(region_text)
        keep == SelectIdx(Len(w), 1, {k \in 1..Len(w) : StartsWith(w[k], RHL_PREFIX)})
    IN  [k \in 1..Len(keep) |-> w[keep[k]]]

\* the body of the loop for one row of df1_targets, up to the annotation:
\* result, found_rhl, confidence, the rectangle and its colour; best is the
\* index of the candidate kept (0 for None) and rect_page the page of the
\* fragment the rectangle was taken from
classify_with(row, df, df_ctx, expected_rhl, f) ==
    LET own == [result |-> "Unmapped", found_rhl |-> DASH, confidence |-> <<0, 1>>,
               rect |-> RectOf(row), color |-> "azure", best |-> 0,
               rect_page |-> row.page, expected_rhl |-> expected_rhl]
    IN  IF expected_rhl # <<>>
        THEN LET scored == [own EXCEPT !.confidence = f.score]
             IN  IF f.best_row # 0
                 THEN LET best_row == df_ctx[f.best_row]
                          region_text == best_row.context
                          df2_rhl == df2_rhl_of(df, best_row.page, expected_rhl)
                          words == rhl_words(region_text)
                          at_best == [scored EXCEPT !.best = f.best_row,
                                         !.rect = RectOf(best_row),
                                         !.rect_page = best_row.page]
                      IN  IF df2_rhl # <<>>
                          THEN [at_best EXCEPT !.result = "Matched",
                                   !.found_rhl = expected_rhl, !.color = "green",
                                   !.rect = RectOf(df[df2_rhl[1]]),
                                   !.rect_page = df[df2_rhl[1]].page]
                          ELSE IF words # <<>>
                          THEN [at_best EXCEPT !.result = "Mismatched",
                                   !.found_rhl = words[1], !.color = "red"]
                          ELSE [at_best EXCEPT !.result = "Missing"]
                 ELSE [scored EXCEPT !.result = "Missing"]
        ELSE own

\* find_best_context_region is called for a mapped tag only
classify(row, df, df_ctx, d) ==
    Eager(map_get(d, row.text), LAMBDA expected_rhl :
        Eager(IF expected_rhl # <<>>
              THEN find_best_context_region(row.context, df_ctx)
              ELSE [best_row |-> 0, score |-> <<0, 1>>],
              LAMBDA f : classify_with(row, df, df_ctx, expected_rhl, f)))

\* bump without `missing += 1`
bump_not_missing(counter, result, name) ==
    IF result = name /\ name # "Missing" THEN counter + 1 ELSE counter

\* one of `matched += 1`, `mismatched += 1`, `missing += 1`, `unmapped += 1`
bump(counter, result, name) == IF result = name THEN counter + 1 ELSE counter

\* the row appended to debug_rows
debug_row(row, c) ==
    [tag_5ad |-> row.text,
     expected |-> IF c.expected_rhl # <<>> THEN c.expected_rhl ELSE DASH,
     found |-> c.found_rhl,
     confidence |-> Round1(c.confidence),
     result |-> c.result]

\* progress_call counting from 0
progress_call_from0(current, tot, rows, rects, counted) ==
    [current |-> current - 1, total |-> tot, rows |-> rows, rects |-> rects,
     counted |-> counted]

\* progress_callback(i, total), with what had been recorded when it was called
progress_call(current, tot, rows, rects, counted) ==
    [current |-> current, total |-> tot, rows |-> rows, rects |-> rects,
     counted |-> counted]

VARIABLES
    pc,            \* "start", "loop", "done", "error"; "bc", "bc_done"
    err,           \* the exception that ended the run, "" for none
    df1, df2,      \* the extracted words of the two drawings
    mapping_rows,  \* the rows of mapping.csv
    page_count,    \* the number of pages of the PDF of drawing 2
    df1_ctx, df2_ctx, map_dict, df1_targets, total,
    i,             \* iterations of the loop completed
    matched, mismatched, missing, unmapped,
    debug_rows,
    annots,        \* the rectangles added to doc2, in order
    calls,         \* the calls of progress_callback, in order
    summary,       \* the returned summary, <<>> before the return
    bc_in, bc_out  \* build_context called on its own: arguments and result

vars ==
    <<pc, err, df1, df2, mapping_rows, page_count, df1_ctx, df2_ctx, map_dict,
      df1_targets, total, i, matched, mismatched, missing, unmapped, debug_rows,
      annots, calls, summary, bc_in, bc_out>>

inputs == <<df1, df2, mapping_rows, page_count>>
setup_vars == <<df1_ctx, df2_ctx, map_dict, df1_targets, total>>
counters == <<matched, mismatched, missing, unmapped>>
outputs == <<debug_rows, annots, calls>>
bc_vars == <<bc_in, bc_out>>

MaxPage(df) == IF df = <<>> THEN 1 ELSE
    CHOOSE m \in {df[k].page : k \in 1..Len(df)} :
        \A k \in 1..Len(df) : df[k].page <= m

Idle ==
    /\ err = ""
    /\ df1_ctx = <<>> /\ df2_ctx = <<>> /\ map_dict = <<>> /\ df1_targets = <<>>
    /\ total = 0 /\ i = 0
    /\ matched = 0 /\ mismatched = 0 /\ missing = 0 /\ unmapped = 0
    /\ debug_rows = <<>> /\ annots = <<>> /\ calls = <<>> /\ summary = <<>>

Init ==
    /\ pc = "start"
    /\ df1 \in SeqsUpTo(Frags1, MaxD1)
    /\ df2 \in SeqsUpTo(Frags2, MaxD2)
    /\ mapping_rows \in MapFiles
    /\ page_count \in {n \in PageCounts : n >= MaxPage(df2)}
    /\ Idle
    /\ bc_in = <<>> /\ bc_out = <<>>

\* lines 85-113 when drawing 1 has words
Setup ==
    /\ pc = "start"
    /\ df1 # <<>>
    /\ df1_ctx' = build_context(df1, DefaultRadius)
    /\ df2_ctx' = build_context(df2, DefaultRadius)
    /\ map_dict' = map_dict_of(mapping_rows)
    /\ df1_targets' = targets_of(df1_ctx')
    /\ total' = Len(df1_targets')
    /\ pc' = "loop"
    /\ UNCHANGED <<err, inputs, i, counters, outputs, summary, bc_vars>>

\* lines 85-107 when drawing 1 has no word: pd.DataFrame([]) has no column,
\* and df1_ctx["text"] raises KeyError
SetupKeyError ==
    /\ pc = "start"
    /\ df1 = <<>>
    /\ df1_ctx' = build_context(df1, DefaultRadius)
    /\ df2_ctx' = build_context(df2, DefaultRadius)
    /\ map_dict' = map_dict_of(mapping_rows)
    /\ pc' = "error"
    /\ err' = "KeyError"
    /\ UNCHANGED <<inputs, df1_targets, total, i, counters, outputs, summary, bc_vars>>

\* one iteration of the loop, lines 115-179
ProcessTag ==
    /\ pc = "loop"
    /\ i < total
    /\ \E row \in {df1_targets[i + 1]} :
       /\ row.page <= page_count
       /\ \E c \in {classify(row, df2, df2_ctx, map_dict)} :
           /\ matched' = bump(matched, c.result, "Matched")
           /\ mismatched' = bump(mismatched, c.result, "Mismatched")
           /\ missing' = bump(missing, c.result, "Missing")
           /\ unmapped' = bump(unmapped, c.result, "Unmapped")
           /\ annots' = Append(annots, [page |-> row.page, rect |-> c.rect,
                                        color |-> c.color, rect_page |-> c.rect_page,
                                        best |-> c.best])
           /\ debug_rows' = Append(debug_rows, debug_row(row, c))
           /\ calls' = Append(calls,
                  progress_call(i + 1, total, Len(debug_rows'), Len(annots'),
                                matched' + mismatched' + missing' + unmapped'))
    /\ i' = i + 1
    /\ UNCHANGED <<pc, err, inputs, setup_vars, summary, bc_vars>>

\* an iteration for a tag on a page drawing 2 does not have: the counter is
\* incremented, then doc2.load_page(row.page - 1) raises ValueError
ProcessTagPageError ==
    /\ pc = "loop"
    /\ i < total
    /\ \E row \in {df1_targets[i + 1]} :
       /\ row.page > page_count
       /\ \E c \in {classify(row, df2, df2_ctx, map_dict)} :
           /\ matched' = bump(matched, c.result, "Matched")
           /\ mismatched' = bump(mismatched, c.result, "Mismatched")
           /\ missing' = bump(missing, c.result, "Missing")
           /\ unmapped' = bump(unmapped, c.result, "Unmapped")
    /\ pc' = "error"
    /\ err' = "ValueError"
    /\ UNCHANGED <<inputs, setup_vars, i, outputs, summary, bc_vars>>

\* lines 181-195: the summary is returned
Finish ==
    /\ pc = "loop"
    /\ i = total
    /\ summary' = [Total |-> total, Matched |-> matched, Mismatched |-> mismatched,
                   Missing |-> missing, Unmapped |-> unmapped]
    /\ pc' = "done"
    /\ UNCHANGED <<err, inputs, setup_vars, i, counters, outputs, bc_vars>>

Next == Setup \/ SetupKeyError \/ ProcessTag \/ ProcessTagPageError \/ Finish

Spec == Init /\ [][Next]_vars

\* ------------------------------------------------------------------------
\* The same run, on one word of drawing 1 and one more word of drawing 2
\* ------------------------------------------------------------------------
InitWide ==
    /\ pc = "start"
    /\ df1 \in SeqsUpTo(Frags1, 1)
    /\ df2 \in SeqsUpTo(Frags2, MaxD2 + 1)
    /\ mapping_rows \in MapFiles
    /\ page_count \in {n \in PageCounts : n >= MaxPage(df2)}
    /\ Idle
    /\ bc_in = <<>> /\ bc_out = <<>>

SpecWide == InitWide /\ [][Next]_vars

\* ------------------------------------------------------------------------
\* build_context on its own, with a radius of 0 or the default
\* ------------------------------------------------------------------------
\* words for build_context: those of both drawings and a word at the origin of
\* the first tag
FragsBC == Frags1 \cup Frags2 \cup {Frag(1, 0, T_V)}

InitBC ==
    /\ pc = "bc"
    /\ bc_in \in [df : SeqsUpTo(FragsBC, MaxD2 + 1), radius : {0, DefaultRadius}]
    /\ bc_out = <<>>
    /\ df1 = <<>> /\ df2 = <<>> /\ mapping_rows = <<>> /\ page_count = 1
    /\ Idle

BuildContextCall ==
    /\ pc = "bc"
    /\ bc_out' = build_context(bc_in.df, bc_in.radius)
    /\ pc' = "bc_done"
    /\ UNCHANGED <<err, inputs, setup_vars, i, counters, outputs, summary, bc_in>>

NextBC == BuildContextCall

SpecBC == InitBC /\ [][NextBC]_vars
\* ------------------------------------------------------------------------
\* Properties
\* ------------------------------------------------------------------------
Counted == matched + mismatched + missing + unmapped

\* the keys of the mapping table: the Drawing1_No cells, trimmed and uppercased
MapKeys == {Upper(Strip(mapping_rows[k].Drawing1_No)) : k \in 1..Len(mapping_rows)}

\* a candidate of drawing 2 scores at least the threshold against context
SomeCandidateScores(context) ==
    \E j \in 1..Len(df2_ctx) : ScoreGE(PartialRatio(context, df2_ctx[j].context), Threshold)

\* C1: after every iteration of the loop the four counters sum to the number
\* of tags processed so far, and the four counts of the returned summary sum to
\* its 'Total Tags Found'
C1_CountersSumToProcessed ==
    /\ pc \in {"loop", "done"} => Counted = Len(debug_rows) /\ Counted <= total
    /\ pc = "done" =>
          /\ summary.Matched + summary.Mismatched + summary.Missing + summary.Unmapped
                = summary.Total
          /\ summary.Total = Len(debug_rows)

\* a run returned a summary of two tags, one Matched and one Unmapped
C1_Witness ==
    /\ pc = "done"
    /\ summary.Total = 2
    /\ summary.Matched = 1
    /\ summary.Unmapped = 1

\* C2: a scanned tag that is no key of the mapping table is Unmapped with
\* confidence 0, whatever drawing 2 contains
C2_AbsentTagIsUnmapped ==
    \A k \in 1..Len(debug_rows) :
        debug_rows[k].tag_5ad \notin MapKeys =>
            /\ debug_rows[k].result = "Unmapped"
            /\ debug_rows[k].confidence = 0
            /\ debug_rows[k].expected = DASH

\* a tag that is no key was processed although the mapping table has keys and a
\* context of drawing 2 scores above the threshold against the tag's context
C2_Witness ==
    \E k \in 1..Len(debug_rows) :
        /\ debug_rows[k].tag_5ad \notin MapKeys
        /\ MapKeys # {}
        /\ SomeCandidateScores(df1_targets[k].context)

\* C7: the callback is called once after each processed tag, after the tag's
\* counter, rectangle and audit row were recorded, with current = 1, 2, ...,
\* total in that order and the same total, and never with total = 0
C7_ProgressCalls ==
    /\ Len(calls) = Len(debug_rows)
    /\ \A k \in 1..Len(calls) :
          /\ calls[k].current = k
          /\ calls[k].total = total
          /\ total > 0
          /\ k <= total
          /\ calls[k].rows = k
          /\ calls[k].rects = k
          /\ calls[k].counted = k
    /\ pc = "done" => Len(calls) = total

\* a run of two tags returned after two calls
C7_Witness == pc = "done" /\ Len(calls) = 2 /\ calls[2].current = 2
\* the target the mapping table gives for a tag, <<>> when it gives none
ExpectedOf(tag) == IF tag \in DOMAIN map_dict THEN map_dict[tag] ELSE <<>>

\* drawing 2 has, on page, a word whose uppercased text is target
TargetOnPage(page, target) ==
    \E j \in 1..Len(df2) : df2[j].page = page /\ Upper(df2[j].text) = target

\* C3, as claimed: a mapped tag for which drawing 2 has, on the tag's page and
\* at the tag's own origin (within any tolerance), a word whose text is exactly
\* the expected target, is Matched
C3_Claimed_CoordinateMatch ==
    \A k \in 1..Len(debug_rows) :
        LET row == df1_targets[k]
        IN  (/\ ExpectedOf(row.text) # <<>>
             /\ \E j \in 1..Len(df2) :
                   /\ df2[j].page = row.page
                   /\ df2[j].x0 = row.x0 /\ df2[j].y0 = row.y0
                   /\ df2[j].text = ExpectedOf(row.text))
            => debug_rows[k].result = "Matched"

\* C3, amended: a mapped tag for which a best candidate was found (a context of
\* drawing 2 scoring at least 75 against the tag's context) and for which
\* drawing 2 has, on the page of that candidate, a word whose uppercased text is
\* the expected target, is Matched; the rectangle is that word's, in green
C3_BestPageTargetIsMatched ==
    \A k \in 1..Len(debug_rows) :
        LET row == df1_targets[k]
        IN  (/\ ExpectedOf(row.text) # <<>>
             /\ annots[k].best # 0
             /\ TargetOnPage(df2_ctx[annots[k].best].page, ExpectedOf(row.text)))
            => /\ debug_rows[k].result = "Matched"
               /\ debug_rows[k].found = ExpectedOf(row.text)
               /\ annots[k].color = "green"

\* a tag was Matched through a word of drawing 2 written in lower case
C3_Witness ==
    \E k \in 1..Len(debug_rows) :
        /\ debug_rows[k].result = "Matched"
        /\ annots[k].best # 0
        /\ \E j \in 1..Len(df2) :
              /\ df2[j].page = df2_ctx[annots[k].best].page
              /\ df2[j].text = T_rhl1
              /\ debug_rows[k].expected = T_RHL1

\* the permutations of the rows of df
Reordered(df) ==
    {[k \in 1..Len(df) |-> df[p[k]]] : p \in Permutations(1..Len(df))}

\* C4: iterating the words of drawing 2 in another order gives every tag the
\* same category
C4_OrderIndependent ==
    pc = "done" =>
        \A other \in Reordered(df2) :
            \A k \in 1..Len(debug_rows) :
                classify(df1_targets[k], other, build_context(other, DefaultRadius),
                         map_dict).result = debug_rows[k].result

\* the words of df on the page and at the origin of df[k], in the order of df
AtSameOrigin(df, k) ==
    SelectIdx(Len(df), 1,
              {j \in 1..Len(df) : /\ df[j].page = df[k].page
                                  /\ df[j].x0 = df[k].x0
                                  /\ df[j].y0 = df[k].y0})

\* C5, as claimed: with radius 0 every context is the fragment's own uppercased
\* text and nothing else
C5_Claimed_OwnTextOnly ==
    (pc = "bc_done" /\ bc_in.radius = 0) =>
        \A k \in 1..Len(bc_out) : bc_out[k].context = Upper(bc_in.df[k].text)

\* C5, amended: with radius 0 the context of a fragment is the uppercased texts,
\* joined by blanks in input order, of the fragments of its page that have
\* exactly its origin; it is the fragment's own uppercased text when no other
\* fragment of the page shares its origin
C5_RadiusZeroContext ==
    (pc = "bc_done" /\ bc_in.radius = 0) =>
        /\ Len(bc_out) = Len(bc_in.df)
        /\ \A k \in 1..Len(bc_out) :
              LET same == AtSameOrigin(bc_in.df, k)
              IN  /\ bc_out[k].context =
                        Upper(Join([j \in 1..Len(same) |-> bc_in.df[same[j]].text]))
                  /\ Len(same) = 1 => bc_out[k].context = Upper(bc_in.df[k].text)

\* with radius 0, a fragment shares its origin with another one, and a third one
\* of the same page is elsewhere
C5_Witness ==
    /\ pc = "bc_done"
    /\ bc_in.radius = 0
    /\ \E k \in 1..Len(bc_out) :
          /\ Len(AtSameOrigin(bc_in.df, k)) = 2
          /\ bc_out[k].context # Upper(bc_in.df[k].text)
          /\ \E j \in 1..Len(bc_in.df) :
                bc_in.df[j].page = bc_in.df[k].page /\ bc_in.df[j].x0 # bc_in.df[k].x0

\* the texts of the rows of df selected by keep, in order
TextsOf(df, keep) == [k \in 1..Len(keep) |-> df[keep[k]].text]

\* C6, as claimed: the audit trail has one row per word of drawing 1 whose
\* extracted text starts with the prefix, and none for any other word
C6_Claimed_CaseSensitiveScan ==
    pc = "done" =>
        LET keep == SelectIdx(Len(df1), 1,
                       {k \in 1..Len(df1) : StartsWith(df1[k].text, prefix_5ad)})
        IN  /\ [k \in 1..Len(debug_rows) |-> debug_rows[k].tag_5ad] = TextsOf(df1, keep)
            /\ summary.Total = Len(keep)

\* C6, amended: the audit trail has one row per word of drawing 1 whose
\* uppercased text starts with the prefix, in input order, under its uppercased
\* text, and none for any other word; Total counts the same words
C6_UppercasedScan ==
    pc = "done" =>
        LET keep == SelectIdx(Len(df1), 1,
                       {k \in 1..Len(df1) : StartsWith(Upper(df1[k].text), prefix_5ad)})
        IN  /\ [k \in 1..Len(debug_rows) |-> debug_rows[k].tag_5ad]
                  = [k \in 1..Len(keep) |-> Upper(df1[keep[k]].text)]
            /\ summary.Total = Len(keep)

\* a run returned two rows, the second one for a tag extracted in lower case
C6_Witness ==
    /\ pc = "done"
    /\ Len(df1) = 2
    /\ df1[2].text = T_5ad1
    /\ Len(debug_rows) = 2
    /\ debug_rows[2].tag_5ad = T_5AD1

\* C8: when drawing 1 has no word the run raises no error and returns a summary
\* of zeros and an empty audit trail
C8_EmptyDrawingCompletes ==
    df1 = <<>> =>
        /\ pc # "error"
        /\ pc = "done" =>
              /\ summary = [Total |-> 0, Matched |-> 0, Mismatched |-> 0,
                            Missing |-> 0, Unmapped |-> 0]
              /\ debug_rows = <<>>

\* C9: the best candidate kept for a tag is on the tag's page, and so is the
\* fragment whose rectangle is drawn on that page
C9_BestOnSamePage ==
    \A k \in 1..Len(annots) :
        annots[k].best # 0 =>
            /\ df2_ctx[annots[k].best].page = annots[k].page
            /\ annots[k].rect_page = annots[k].page

\* s occurs in t
IsSubstring(s, t) ==
    \E a \in 0..(Len(t) - Len(s)) : SubSeq(t, a + 1, a + Len(s)) = s

\* C10: a mapped tag whose best candidate scores at least the threshold is
\* Matched exactly when the expected target occurs in the context of that
\* candidate
C10_MatchedIffInBestContext ==
    \A k \in 1..Len(debug_rows) :
        (ExpectedOf(df1_targets[k].text) # <<>> /\ annots[k].best # 0) =>
            (debug_rows[k].result = "Matched"
                <=> IsSubstring(ExpectedOf(df1_targets[k].text),
                                df2_ctx[annots[k].best].context))
====
